---- MODULE Spec2Model ----
(***************************************************************************)
(* Model of the icp-topics-saver canister (src/src/index.ts): two stable   *)
(* B-tree maps, languageStorage and topicStorage, and the exported update  *)
(* and query functions over them.  The canister serves one request at a    *)
(* time: every exported function is one action that runs to completion     *)
(* while the canister is idle, and Reply hands the Result back and makes   *)
(* the canister idle again.  The variables call, ret, preLanguages and     *)
(* preTopics record the request being answered, its Result and the two     *)
(* maps as they were when the request arrived.                             *)
(***************************************************************************)
EXTENDS Integers, Sequences, FiniteSets, TLC

VARIABLES languageStorage, topicStorage, call, ret, preLanguages, preTopics

vars == <<languageStorage, topicStorage, call, ret, preLanguages, preTopics>>

(* Bounds of the model: how many distinct language ids and topic ids the    *)
(* id generator can hand out.                                               *)
MaxLangs == 2
MaxTopics == 2

LangIds == 1..MaxLangs
TopicIds == 1..MaxTopics

(* Texts are sequences of characters.                                       *)
(* Titles that requests store, and the texts that lookups and searches ask  *)
(* for: one more, differing from a stored title only in case.               *)
Titles == { <<>>, <<"G", "o">> }

Names == Titles \cup { <<"g", "o">> }

NoText == <<>>
NoId == 0

(* ---- Result<T, string> ------------------------------------------------- *)
(* val is the Ok payload: a list for the Vec results, a one-element list    *)
(* for a single record.  err is the kind of the Err text.  "Undefined" is   *)
(* the outcome of a match that has no branch for the value it receives.     *)
Ok(v) == [ok |-> TRUE, err |-> "", val |-> v]
Err(kind) == [ok |-> FALSE, err |-> kind, val |-> <<>>]
Undefined == [ok |-> FALSE, err |-> "Undefined", val |-> <<>>]

(* ---- StableBTreeMap ---------------------------------------------------- *)
Keys(n) == [i \in 1..n |-> i]

(* values(): the stored records in ascending key order.                     *)
Values(m, n) ==
  LET ks == SelectSeq(Keys(n), LAMBDA k : k \in DOMAIN m)
  IN [i \in 1..Len(ks) |-> m[ks[i]]]

Insert(m, k, v) == [x \in DOMAIN m \cup {k} |-> IF x = k THEN v ELSE m[x]]

Remove(m, k) == [x \in DOMAIN m \ {k} |-> m[x]]

(* Array.prototype.find on titles: index of the first match, 0 for none.    *)
FindTitle(s, title) ==
  IF \E i \in 1..Len(s) : s[i].title = title
  THEN CHOOSE i \in 1..Len(s) :
         /\ s[i].title = title
         /\ \A j \in 1..(i - 1) : s[j].title # title
  ELSE 0

(* uuidv4(): an id that no stored record of the map has.                    *)
FreshIds(m, ids) == ids \ DOMAIN m

(* ---- queries ----------------------------------------------------------- *)
findLanguageByName(lang_name) ==
  LET languages == Values(languageStorage, MaxLangs)
      i == FindTitle(languages, lang_name)
  IN IF i = 0 THEN Err("NotFound")
     ELSE IF languages[i].id \in DOMAIN languageStorage
          THEN Ok(<<languageStorage[languages[i].id]>>)
          ELSE Undefined

getLanguages == Ok(Values(languageStorage, MaxLangs))

(* Variant: the language filter is missing.                                 *)
getAllTopicsByLanguage_NoFilter(lang_name) ==
  LET r == findLanguageByName(lang_name)
  IN IF r.ok
     THEN Ok(Values(topicStorage, MaxTopics))
     ELSE Err("NotFound")

getAllTopicsByLanguage(lang_name) ==
  LET r == findLanguageByName(lang_name)
  IN IF r.ok
     THEN LET language_id == r.val[1].id
          IN Ok(SelectSeq(Values(topicStorage, MaxTopics),
                          LAMBDA el : el.language_id = language_id))
     ELSE Err("NotFound")

(* Variant: an unknown language gives an empty list instead of an Err.      *)
getTopicsByLanguage_EmptyOnMissing(lang_name) ==
  LET r == findLanguageByName(lang_name)
  IN IF r.ok
     THEN LET language == r.val[1]
          IN Ok(SelectSeq(Values(topicStorage, MaxTopics),
                          LAMBDA topic : topic.language_id = language.id))
     ELSE Ok(<<>>)

getTopicsByLanguage(lang_name) ==
  LET r == findLanguageByName(lang_name)
  IN IF r.ok
     THEN LET language == r.val[1]
          IN Ok(SelectSeq(Values(topicStorage, MaxTopics),
                          LAMBDA topic : topic.language_id = language.id))
     ELSE Err("NotFound")

(* Variant: the filter does not compare language ids.                       *)
RECURSIVE StatusLoop_NoLanguageFilter(_, _, _)
StatusLoop_NoLanguageFilter(languages, topics, closed) ==
  IF languages = <<>> THEN <<>>
  ELSE LET temp == SelectSeq(topics, LAMBDA el : el.closed = closed)
       IN temp \o StatusLoop_NoLanguageFilter(Tail(languages), topics, closed)

RECURSIVE StatusLoop(_, _, _)
StatusLoop(languages, topics, closed) ==
  IF languages = <<>> THEN <<>>
  ELSE LET language == Head(languages)
           temp == SelectSeq(topics, LAMBDA el :
                      el.language_id = language.id /\ el.closed = closed)
       IN temp \o StatusLoop(Tail(languages), topics, closed)

getTopicsByStatus(closed) ==
  Ok(StatusLoop(Values(languageStorage, MaxLangs),
                Values(topicStorage, MaxTopics), closed))

(* Variant: every topic is counted for every language.                      *)
RECURSIVE StatsLoop_CountAll(_)
StatsLoop_CountAll(languages) ==
  IF languages = <<>> THEN <<>>
  ELSE LET language == Head(languages)
           topicsCount == Len(Values(topicStorage, MaxTopics))
       IN <<[title |-> language.title, count |-> topicsCount]>>
            \o StatsLoop_CountAll(Tail(languages))

RECURSIVE StatsLoop(_)
StatsLoop(languages) ==
  IF languages = <<>> THEN <<>>
  ELSE LET language == Head(languages)
           topicsCount == Len(SelectSeq(Values(topicStorage, MaxTopics),
                              LAMBDA topic : topic.language_id = language.id))
       IN <<[title |-> language.title, count |-> topicsCount]>>
            \o StatsLoop(Tail(languages))

getLanguageStatistics == Ok(StatsLoop(Values(languageStorage, MaxLangs)))

(* String.prototype.toLowerCase and String.prototype.includes.              *)
LowerChar(c) ==
  CASE c = "G" -> "g"
    [] c = "O" -> "o"
    [] OTHER -> c

(* Variant: the text is left as it is.                                      *)
toLowerCase_Identity(s) == s

toLowerCase(s) == [i \in 1..Len(s) |-> LowerChar(s[i])]

includes(s, q) ==
  \E i \in 0..(Len(s) - Len(q)) :
     \A j \in 1..Len(q) : s[i + j] = q[j]

searchTopics(query) ==
  Ok(SelectSeq(Values(topicStorage, MaxTopics),
               LAMBDA topic : includes(toLowerCase(topic.title), toLowerCase(query))))

(* ---- the request record ------------------------------------------------ *)
Call(op, lang_name, new_name, id, title, closed) ==
  [op |-> op, lang_name |-> lang_name, new_name |-> new_name,
   id |-> id, title |-> title, closed |-> closed]

Idle == Call("idle", NoText, NoText, NoId, NoText, FALSE)

(* Serving a request: remember the maps as they are, then run the function. *)
Request(c, r) ==
  /\ call' = c
  /\ ret' = r
  /\ preLanguages' = languageStorage
  /\ preTopics' = topicStorage

(* Variant: a query that empties the topic map while answering.             *)
Query_DropsTopics(c, r) ==
  /\ Request(c, r)
  /\ topicStorage' = <<>>
  /\ UNCHANGED languageStorage

Query(c, r) ==
  /\ Request(c, r)
  /\ UNCHANGED <<languageStorage, topicStorage>>

Init ==
  /\ languageStorage = <<>>
  /\ topicStorage = <<>>
  /\ call = Idle
  /\ ret = Ok(<<>>)
  /\ preLanguages = <<>>
  /\ preTopics = <<>>

(* ---- updates ----------------------------------------------------------- *)
(* Variant: the record is stored under a key that is not its id.            *)
addLanguage_KeyMismatch(lang_name) ==
  LET c == Call("addLanguage", lang_name, NoText, NoId, NoText, FALSE)
  IN IF ~findLanguageByName(lang_name).ok
     THEN \E id \in FreshIds(languageStorage, LangIds) :
            LET language == [id |-> (id % MaxLangs) + 1, title |-> lang_name]
            IN /\ languageStorage' = Insert(languageStorage, id, language)
               /\ UNCHANGED topicStorage
               /\ Request(c, Ok(<<language>>))
     ELSE /\ UNCHANGED <<languageStorage, topicStorage>>
          /\ Request(c, Err("AlreadyExists"))

(* Variant: the title is not looked up first.                               *)
addLanguage_NoCheck(lang_name) ==
  LET c == Call("addLanguage", lang_name, NoText, NoId, NoText, FALSE)
  IN \E id \in FreshIds(languageStorage, LangIds) :
       LET language == [id |-> id, title |-> lang_name]
       IN /\ languageStorage' = Insert(languageStorage, language.id, language)
          /\ UNCHANGED topicStorage
          /\ Request(c, Ok(<<language>>))

addLanguage(lang_name) ==
  LET c == Call("addLanguage", lang_name, NoText, NoId, NoText, FALSE)
  IN IF ~findLanguageByName(lang_name).ok
     THEN \E id \in FreshIds(languageStorage, LangIds) :
            LET language == [id |-> id, title |-> lang_name]
            IN /\ languageStorage' = Insert(languageStorage, language.id, language)
               /\ UNCHANGED topicStorage
               /\ Request(c, Ok(<<language>>))
     ELSE /\ UNCHANGED <<languageStorage, topicStorage>>
          /\ Request(c, Err("AlreadyExists"))

(* Variant: every language carrying the old title is renamed.               *)
changeLanguageTitle_RenamesAll(old_name, new_name) ==
  LET c == Call("changeLanguageTitle", old_name, new_name, NoId, NoText, FALSE)
      r == findLanguageByName(old_name)
  IN IF r.ok
     THEN /\ languageStorage' =
               [k \in DOMAIN languageStorage |->
                  IF languageStorage[k].title = old_name
                  THEN [languageStorage[k] EXCEPT !.title = new_name]
                  ELSE languageStorage[k]]
          /\ UNCHANGED topicStorage
          /\ Request(c, Ok(<<[r.val[1] EXCEPT !.title = new_name]>>))
     ELSE /\ UNCHANGED <<languageStorage, topicStorage>>
          /\ Request(c, Err("NotFound"))

changeLanguageTitle(old_name, new_name) ==
  LET c == Call("changeLanguageTitle", old_name, new_name, NoId, NoText, FALSE)
      r == findLanguageByName(old_name)
  IN IF r.ok
     THEN LET language_id == r.val[1].id
          IN IF language_id \in DOMAIN languageStorage
             THEN LET language == languageStorage[language_id]
                      updatedLanguage == [language EXCEPT !.title = new_name]
                  IN /\ languageStorage' = Insert(languageStorage, language.id, updatedLanguage)
                     /\ UNCHANGED topicStorage
                     /\ Request(c, Ok(<<updatedLanguage>>))
             ELSE /\ UNCHANGED <<languageStorage, topicStorage>>
                  /\ Request(c, Undefined)
     ELSE /\ UNCHANGED <<languageStorage, topicStorage>>
          /\ Request(c, Err("NotFound"))

(* Variants of the cascade: one removes nothing, one removes every topic.   *)
CascadeLoop_KeepTopics(ts, m, id) == m

RECURSIVE CascadeLoop_RemoveAll(_, _, _)
CascadeLoop_RemoveAll(ts, m, id) ==
  IF ts = <<>> THEN m
  ELSE CascadeLoop_RemoveAll(Tail(ts), Remove(m, Head(ts).id), id)

(* The forEach of deleteLanguage over the list values() returned.           *)
RECURSIVE CascadeLoop(_, _, _)
CascadeLoop(ts, m, id) ==
  IF ts = <<>> THEN m
  ELSE LET t == Head(ts)
       IN CascadeLoop(Tail(ts), IF t.language_id = id THEN Remove(m, t.id) ELSE m, id)

(* Variant: the language is removed, its topics are left.                   *)
deleteLanguage_NoCascade(id) ==
  LET c == Call("deleteLanguage", NoText, NoText, id, NoText, FALSE)
  IN IF id \in DOMAIN languageStorage
     THEN LET deletedLanguage == languageStorage[id]
          IN /\ languageStorage' = Remove(languageStorage, id)
             /\ UNCHANGED topicStorage
             /\ Request(c, Ok(<<deletedLanguage>>))
     ELSE /\ UNCHANGED <<languageStorage, topicStorage>>
          /\ Request(c, Err("NotFound"))

deleteLanguage(id) ==
  LET c == Call("deleteLanguage", NoText, NoText, id, NoText, FALSE)
  IN IF id \in DOMAIN languageStorage
     THEN LET deletedLanguage == languageStorage[id]
          IN /\ languageStorage' = Remove(languageStorage, id)
             /\ topicStorage' = CascadeLoop(Values(topicStorage, MaxTopics), topicStorage, id)
             /\ Request(c, Ok(<<deletedLanguage>>))
     ELSE /\ UNCHANGED <<languageStorage, topicStorage>>
          /\ Request(c, Err("NotFound"))

(* Variant: the topic is stored under the language id as its key.           *)
addTopic_KeyIsLanguage(payload, lang_name) ==
  LET c == Call("addTopic", lang_name, NoText, NoId, payload.title, payload.closed)
      r == findLanguageByName(lang_name)
  IN IF r.ok
     THEN LET language_id == r.val[1].id
              topics == getAllTopicsByLanguage(lang_name)
          IN IF topics.ok /\ \E i \in 1..Len(topics.val) : topics.val[i].title = payload.title
             THEN /\ UNCHANGED <<languageStorage, topicStorage>>
                  /\ Request(c, Err("AlreadyExists"))
             ELSE \E id \in FreshIds(topicStorage, TopicIds) :
                    LET topic == [id |-> id, language_id |-> language_id,
                                  title |-> payload.title, closed |-> payload.closed]
                    IN /\ topicStorage' = Insert(topicStorage, language_id, topic)
                       /\ UNCHANGED languageStorage
                       /\ Request(c, Ok(<<topic>>))
     ELSE /\ UNCHANGED <<languageStorage, topicStorage>>
          /\ Request(c, Err("NotFound"))

(* Variant: the topic is inserted before the title collision is checked.    *)
addTopic_InsertBeforeCheck(payload, lang_name) ==
  LET c == Call("addTopic", lang_name, NoText, NoId, payload.title, payload.closed)
      r == findLanguageByName(lang_name)
  IN IF r.ok
     THEN LET language_id == r.val[1].id
              topics == getAllTopicsByLanguage(lang_name)
          IN \E id \in FreshIds(topicStorage, TopicIds) :
               LET topic == [id |-> id, language_id |-> language_id,
                             title |-> payload.title, closed |-> payload.closed]
               IN /\ topicStorage' = Insert(topicStorage, topic.id, topic)
                  /\ UNCHANGED languageStorage
                  /\ IF topics.ok /\ \E i \in 1..Len(topics.val) :
                                        topics.val[i].title = payload.title
                     THEN Request(c, Err("AlreadyExists"))
                     ELSE Request(c, Ok(<<topic>>))
     ELSE /\ UNCHANGED <<languageStorage, topicStorage>>
          /\ Request(c, Err("NotFound"))

addTopic(payload, lang_name) ==
  LET c == Call("addTopic", lang_name, NoText, NoId, payload.title, payload.closed)
      r == findLanguageByName(lang_name)
  IN IF r.ok
     THEN LET language_id == r.val[1].id
              topics == getAllTopicsByLanguage(lang_name)
          IN IF topics.ok /\ \E i \in 1..Len(topics.val) : topics.val[i].title = payload.title
             THEN /\ UNCHANGED <<languageStorage, topicStorage>>
                  /\ Request(c, Err("AlreadyExists"))
             ELSE \E id \in FreshIds(topicStorage, TopicIds) :
                    LET topic == [id |-> id, language_id |-> language_id,
                                  title |-> payload.title, closed |-> payload.closed]
                    IN /\ topicStorage' = Insert(topicStorage, topic.id, topic)
                       /\ UNCHANGED languageStorage
                       /\ Request(c, Ok(<<topic>>))
     ELSE /\ UNCHANGED <<languageStorage, topicStorage>>
          /\ Request(c, Err("NotFound"))

(* Variant: only the title of the payload is taken over.                    *)
updateTopic_KeepsClosed(id, payload) ==
  LET c == Call("updateTopic", NoText, NoText, id, payload.title, payload.closed)
  IN IF id \in DOMAIN topicStorage
     THEN LET topic == topicStorage[id]
              updatedTopic == [topic EXCEPT !.title = payload.title]
          IN /\ topicStorage' = Insert(topicStorage, topic.id, updatedTopic)
             /\ UNCHANGED languageStorage
             /\ Request(c, Ok(<<updatedTopic>>))
     ELSE /\ UNCHANGED <<languageStorage, topicStorage>>
          /\ Request(c, Err("NotFound"))

updateTopic(id, payload) ==
  LET c == Call("updateTopic", NoText, NoText, id, payload.title, payload.closed)
  IN IF id \in DOMAIN topicStorage
     THEN LET topic == topicStorage[id]
              updatedTopic == [topic EXCEPT !.title = payload.title,
                                            !.closed = payload.closed]
          IN /\ topicStorage' = Insert(topicStorage, topic.id, updatedTopic)
             /\ UNCHANGED languageStorage
             /\ Request(c, Ok(<<updatedTopic>>))
     ELSE /\ UNCHANGED <<languageStorage, topicStorage>>
          /\ Request(c, Err("NotFound"))

(* Variant: the status is always set to closed.                             *)
updateTopicStatus_AlwaysClosed(id, closed) ==
  LET c == Call("updateTopicStatus", NoText, NoText, id, NoText, closed)
  IN IF id \in DOMAIN topicStorage
     THEN LET topic == topicStorage[id]
              updatedTopic == [topic EXCEPT !.closed = TRUE]
          IN /\ topicStorage' = Insert(topicStorage, topic.id, updatedTopic)
             /\ UNCHANGED languageStorage
             /\ Request(c, Ok(<<updatedTopic>>))
     ELSE /\ UNCHANGED <<languageStorage, topicStorage>>
          /\ Request(c, Err("NotFound"))

updateTopicStatus(id, closed) ==
  LET c == Call("updateTopicStatus", NoText, NoText, id, NoText, closed)
  IN IF id \in DOMAIN topicStorage
     THEN LET topic == topicStorage[id]
              updatedTopic == [topic EXCEPT !.closed = closed]
          IN /\ topicStorage' = Insert(topicStorage, topic.id, updatedTopic)
             /\ UNCHANGED languageStorage
             /\ Request(c, Ok(<<updatedTopic>>))
     ELSE /\ UNCHANGED <<languageStorage, topicStorage>>
          /\ Request(c, Err("NotFound"))

deleteTopic(id) ==
  LET c == Call("deleteTopic", NoText, NoText, id, NoText, FALSE)
  IN IF id \in DOMAIN topicStorage
     THEN LET deletedTopic == topicStorage[id]
          IN /\ topicStorage' = Remove(topicStorage, id)
             /\ UNCHANGED languageStorage
             /\ Request(c, Ok(<<deletedTopic>>))
     ELSE /\ UNCHANGED <<languageStorage, topicStorage>>
          /\ Request(c, Err("NotFound"))

(* ---- the exported functions as steps ----------------------------------- *)
Payloads == [title : Titles, closed : BOOLEAN]

(* A request is taken only when no other is being served.                   *)
AddLanguage ==
  /\ call = Idle
  /\ \E t \in Titles : addLanguage(t)

ChangeLanguageTitle ==
  /\ call = Idle
  /\ \E o \in Titles, n \in Titles : changeLanguageTitle(o, n)

DeleteLanguage ==
  /\ call = Idle
  /\ \E id \in LangIds : deleteLanguage(id)

AddTopic ==
  /\ call = Idle
  /\ \E p \in Payloads, t \in Titles : addTopic(p, t)

UpdateTopic ==
  /\ call = Idle
  /\ \E id \in TopicIds, p \in Payloads : updateTopic(id, p)

UpdateTopicStatus ==
  /\ call = Idle
  /\ \E id \in TopicIds, b \in BOOLEAN : updateTopicStatus(id, b)

DeleteTopic ==
  /\ call = Idle
  /\ \E id \in TopicIds : deleteTopic(id)

GetLanguages ==
  /\ call = Idle
  /\ Query(Call("getLanguages", NoText, NoText, NoId, NoText, FALSE), getLanguages)

FindLanguageByName ==
  /\ call = Idle
  /\ \E t \in Names :
       Query(Call("findLanguageByName", t, NoText, NoId, NoText, FALSE),
             findLanguageByName(t))

GetAllTopicsByLanguage ==
  /\ call = Idle
  /\ \E t \in Names :
       Query(Call("getAllTopicsByLanguage", t, NoText, NoId, NoText, FALSE),
             getAllTopicsByLanguage(t))

GetTopicsByLanguage ==
  /\ call = Idle
  /\ \E t \in Names :
       Query(Call("getTopicsByLanguage", t, NoText, NoId, NoText, FALSE),
             getTopicsByLanguage(t))

GetTopicsByStatus ==
  /\ call = Idle
  /\ \E b \in BOOLEAN :
       Query(Call("getTopicsByStatus", NoText, NoText, NoId, NoText, b),
             getTopicsByStatus(b))

SearchTopics ==
  /\ call = Idle
  /\ \E q \in Names :
       Query(Call("searchTopics", NoText, NoText, NoId, q, FALSE), searchTopics(q))

GetLanguageStatistics ==
  /\ call = Idle
  /\ Query(Call("getLanguageStatistics", NoText, NoText, NoId, NoText, FALSE),
           getLanguageStatistics)

(* The Result goes back to the caller; the canister is idle again.          *)
Reply ==
  /\ call # Idle
  /\ call' = Idle
  /\ ret' = Ok(<<>>)
  /\ preLanguages' = languageStorage
  /\ preTopics' = topicStorage
  /\ UNCHANGED <<languageStorage, topicStorage>>

Next ==
  \/ AddLanguage
  \/ ChangeLanguageTitle
  \/ DeleteLanguage
  \/ AddTopic
  \/ UpdateTopic
  \/ UpdateTopicStatus
  \/ DeleteTopic
  \/ GetLanguages
  \/ FindLanguageByName
  \/ GetAllTopicsByLanguage
  \/ GetTopicsByLanguage
  \/ GetTopicsByStatus
  \/ SearchTopics
  \/ GetLanguageStatistics
  \/ Reply

Spec == Init /\ [][Next]_vars

(* ---- addTopic in two steps --------------------------------------------- *)
(* A host that does not serve one request at a time: addTopic's lookups     *)
(* and collision check are one step, its insert is a later step, and a      *)
(* deleteLanguage can run in between.  While the insert is outstanding,     *)
(* call holds the request with the resolved language_id in its id field.    *)
addTopicResolve(payload, lang_name) ==
  LET r == findLanguageByName(lang_name)
      topics == getAllTopicsByLanguage(lang_name)
  IN /\ r.ok
     /\ ~(topics.ok /\ \E i \in 1..Len(topics.val) : topics.val[i].title = payload.title)
     /\ Request(Call("addTopicPending", lang_name, NoText, r.val[1].id,
                     payload.title, payload.closed), Ok(<<>>))
     /\ UNCHANGED <<languageStorage, topicStorage>>

addTopicInsert ==
  \E id \in FreshIds(topicStorage, TopicIds) :
    LET topic == [id |-> id, language_id |-> call.id,
                  title |-> call.title, closed |-> call.closed]
    IN /\ topicStorage' = Insert(topicStorage, topic.id, topic)
       /\ call' = Call("addTopic", call.lang_name, NoText, NoId, call.title, call.closed)
       /\ ret' = Ok(<<topic>>)
       /\ UNCHANGED <<languageStorage, preLanguages, preTopics>>

(* deleteLanguage(id) of another caller, run to completion between the two  *)
(* steps.                                                                   *)
interleavedDeleteLanguage(id) ==
  /\ id \in DOMAIN languageStorage
  /\ languageStorage' = Remove(languageStorage, id)
  /\ topicStorage' = CascadeLoop(Values(topicStorage, MaxTopics), topicStorage, id)
  /\ UNCHANGED <<call, ret, preLanguages, preTopics>>

AddTopicResolve ==
  /\ call = Idle
  /\ \E p \in Payloads, t \in Titles : addTopicResolve(p, t)

InterleavedDeleteLanguage ==
  /\ call.op = "addTopicPending"
  /\ \E id \in LangIds : interleavedDeleteLanguage(id)

AddTopicInsert ==
  /\ call.op = "addTopicPending"
  /\ addTopicInsert

ReplyServed ==
  /\ call.op # "addTopicPending"
  /\ Reply

SplitNext ==
  \/ AddLanguage
  \/ ChangeLanguageTitle
  \/ DeleteLanguage
  \/ AddTopic
  \/ DeleteTopic
  \/ AddTopicResolve
  \/ InterleavedDeleteLanguage
  \/ AddTopicInsert
  \/ ReplyServed

SplitSpec == Init /\ [][SplitNext]_vars

(* ---- searching among longer titles ------------------------------------ *)
(* The bound on the length of the titles and queries of the search runs.    *)
MaxLen == 2

SearchChars == { "G", "g", "o" }

Texts(n) == UNION { [1..k -> SearchChars] : k \in 0..n }

SearchTexts == Texts(MaxLen)

(* One language with two topics of any titles (addTopic and updateTopic     *)
(* store any text), no request being served.                                *)
SearchInit ==
  /\ languageStorage = <<[id |-> 1, title |-> <<"G", "o">>]>>
  /\ \E t1 \in SearchTexts, t2 \in SearchTexts :
       topicStorage = <<[id |-> 1, language_id |-> 1, title |-> t1, closed |-> FALSE],
                        [id |-> 2, language_id |-> 1, title |-> t2, closed |-> TRUE]>>
  /\ call = Idle
  /\ ret = Ok(<<>>)
  /\ preLanguages = languageStorage
  /\ preTopics = topicStorage

SearchAny ==
  /\ call = Idle
  /\ \E q \in SearchTexts :
       Query(Call("searchTopics", NoText, NoText, NoId, q, FALSE), searchTopics(q))

SearchNext ==
  \/ SearchAny
  \/ Reply

SearchSpec == SearchInit /\ [][SearchNext]_vars

(* ======================================================================= *)
(* Properties                                                              *)
(* ======================================================================= *)
Range(s) == { s[i] : i \in 1..Len(s) }

NoDuplicates(s) == \A i, j \in 1..Len(s) : i # j => s[i] # s[j]

(* The records of a map, and the topics a language owns in a topic map.     *)
Records(m) == { m[k] : k \in DOMAIN m }

TopicsOf(m, language_id) == { k \in DOMAIN m : m[k].language_id = language_id }

(* The language a title resolves to in a language map: the one with the     *)
(* least id among those carrying the title; NoId when there is none.        *)
Resolved(m, title) ==
  LET c == { k \in DOMAIN m : m[k].title = title }
  IN IF c = {} THEN NoId ELSE CHOOSE k \in c : \A x \in c : k <= x

(* C1: referential integrity.  After every request, each stored topic's     *)
(* language_id is the id of a language in the language store.               *)
C1_ReferentialIntegrity ==
  \A k \in DOMAIN topicStorage :
     topicStorage[k].language_id \in DOMAIN languageStorage

(* C1 witness: a deleteLanguage that removed a language owning a topic,     *)
(* while a topic of another language stays stored.                          *)
C1_Witness ==
  /\ call.op = "deleteLanguage"
  /\ ret.ok
  /\ TopicsOf(preTopics, call.id) # {}
  /\ topicStorage # <<>>

(* C2: language titles are unique.  No two stored languages share a title.  *)
C2_LanguageTitlesUnique ==
  \A a, b \in DOMAIN languageStorage :
     languageStorage[a].title = languageStorage[b].title => a = b

(* C3: topic titles are unique per language.  No two stored topics with     *)
(* the same language_id have the same title.                                *)
C3_TopicTitlesUniquePerLanguage ==
  \A a, b \in DOMAIN topicStorage :
     ( /\ topicStorage[a].language_id = topicStorage[b].language_id
       /\ topicStorage[a].title = topicStorage[b].title ) => a = b

(* C4: cascading delete.  A successful deleteLanguage(id) returns the       *)
(* removed record, removes exactly the language id and exactly the topics   *)
(* whose language_id is id, and leaves every other record as it was; the    *)
(* listings by language and by status taken afterwards contain none of the  *)
(* removed topics, and every such listing returns stored topics only.       *)
C4_CascadingDelete ==
  /\ (call.op = "deleteLanguage" /\ ret.ok) =>
       LET removed == TopicsOf(preTopics, call.id)
           listed == UNION { Range(getTopicsByLanguage(t).val) : t \in Names }
                       \cup UNION { Range(getAllTopicsByLanguage(t).val) : t \in Names }
                       \cup UNION { Range(getTopicsByStatus(b).val) : b \in BOOLEAN }
       IN /\ call.id \in DOMAIN preLanguages
          /\ ret.val = <<preLanguages[call.id]>>
          /\ DOMAIN languageStorage = DOMAIN preLanguages \ {call.id}
          /\ \A k \in DOMAIN languageStorage : languageStorage[k] = preLanguages[k]
          /\ DOMAIN topicStorage = DOMAIN preTopics \ removed
          /\ \A k \in DOMAIN topicStorage : topicStorage[k] = preTopics[k]
          /\ \A k \in removed : preTopics[k] \notin listed
          /\ (removed = {} => topicStorage = preTopics)
  /\ call.op \in {"getTopicsByLanguage", "getAllTopicsByLanguage", "getTopicsByStatus"} =>
       Range(ret.val) \subseteq Records(topicStorage)

(* C4 witness: a deleteLanguage removed a topic and left another language   *)
(* with its topic.                                                          *)
C4_Witness ==
  /\ call.op = "deleteLanguage"
  /\ ret.ok
  /\ TopicsOf(preTopics, call.id) # {}
  /\ languageStorage # <<>>
  /\ topicStorage # <<>>
  /\ Cardinality(DOMAIN preTopics) = Cardinality(DOMAIN topicStorage) + 1

(* C5: failure atomicity.  When a request returns Err, both maps are as     *)
(* they were when the request arrived.                                      *)
C5_FailureAtomicity ==
  ~ret.ok => /\ languageStorage = preLanguages
             /\ topicStorage = preTopics

(* C5 witness: deleteLanguage on an absent id failed while a language and   *)
(* its topics are stored.                                                   *)
C5_Witness ==
  /\ call.op = "deleteLanguage"
  /\ ret = Err("NotFound")
  /\ call.id \notin DOMAIN preLanguages
  /\ topicStorage # <<>>

(* C6: addLanguage(t) returns AlreadyExists iff a stored language has the   *)
(* title t; otherwise it returns and inserts one record {id, title: t}      *)
(* under an id the store did not have, and changes nothing else.            *)
C6_AddLanguage ==
  call.op = "addLanguage" =>
    LET exists == \E k \in DOMAIN preLanguages : preLanguages[k].title = call.lang_name
    IN /\ (ret = Err("AlreadyExists")) <=> exists
       /\ ~exists =>
            /\ ret.ok
            /\ Len(ret.val) = 1
            /\ ret.val[1].title = call.lang_name
            /\ ret.val[1].id \notin DOMAIN preLanguages
            /\ DOMAIN languageStorage = DOMAIN preLanguages \cup {ret.val[1].id}
            /\ languageStorage[ret.val[1].id] = ret.val[1]
            /\ \A k \in DOMAIN preLanguages : languageStorage[k] = preLanguages[k]
            /\ topicStorage = preTopics

(* C6 witness: an addLanguage succeeded next to a stored language that has  *)
(* a topic.                                                                 *)
C6_Witness ==
  /\ call.op = "addLanguage"
  /\ ret.ok
  /\ preLanguages # <<>>
  /\ preTopics # <<>>

(* C7: addTopic(payload, languageTitle) returns NotFound when the title     *)
(* resolves to no language, AlreadyExists when a topic with payload.title   *)
(* is stored under the resolved language id (whatever the closed values),   *)
(* and otherwise stores one new topic with the resolved language_id and     *)
(* the supplied title and closed, changing nothing else.                    *)
C7_AddTopic ==
  call.op = "addTopic" =>
    LET language_id == Resolved(preLanguages, call.lang_name)
        collision == \E k \in TopicsOf(preTopics, language_id) :
                        preTopics[k].title = call.title
    IN /\ language_id = NoId => ret = Err("NotFound")
       /\ (language_id # NoId /\ collision) => ret = Err("AlreadyExists")
       /\ (language_id # NoId /\ ~collision) =>
            /\ ret.ok
            /\ Len(ret.val) = 1
            /\ ret.val[1].id \notin DOMAIN preTopics
            /\ ret.val[1].language_id = language_id
            /\ ret.val[1].title = call.title
            /\ ret.val[1].closed = call.closed
            /\ DOMAIN topicStorage = DOMAIN preTopics \cup {ret.val[1].id}
            /\ topicStorage[ret.val[1].id] = ret.val[1]
            /\ \A k \in DOMAIN preTopics : topicStorage[k] = preTopics[k]
            /\ languageStorage = preLanguages

(* C7 witness: an addTopic succeeded with a title that another language's   *)
(* topic already carries.                                                   *)
C7_Witness ==
  /\ call.op = "addTopic"
  /\ ret.ok
  /\ \E k \in DOMAIN preTopics :
        /\ preTopics[k].title = call.title
        /\ preTopics[k].language_id # ret.val[1].language_id

(* C8: updateTopicStatus(id, closed) on a stored topic changes only that    *)
(* topic's closed field; afterwards getTopicsByStatus(closed) contains the  *)
(* topic and getTopicsByStatus(not closed) does not.  On an absent id it    *)
(* returns NotFound.                                                        *)
C8_UpdateTopicStatus ==
  call.op = "updateTopicStatus" =>
    IF call.id \in DOMAIN preTopics
    THEN /\ ret.ok
         /\ ret.val = <<topicStorage[call.id]>>
         /\ DOMAIN topicStorage = DOMAIN preTopics
         /\ topicStorage[call.id].closed = call.closed
         /\ topicStorage[call.id].id = preTopics[call.id].id
         /\ topicStorage[call.id].title = preTopics[call.id].title
         /\ topicStorage[call.id].language_id = preTopics[call.id].language_id
         /\ \A k \in DOMAIN preTopics \ {call.id} : topicStorage[k] = preTopics[k]
         /\ languageStorage = preLanguages
         /\ topicStorage[call.id] \in Range(getTopicsByStatus(call.closed).val)
         /\ topicStorage[call.id] \notin Range(getTopicsByStatus(~call.closed).val)
    ELSE ret = Err("NotFound")

(* C8 witness: an active topic was closed, another topic is stored.         *)
C8_Witness ==
  /\ call.op = "updateTopicStatus"
  /\ ret.ok
  /\ call.id \in DOMAIN preTopics
  /\ ~preTopics[call.id].closed
  /\ topicStorage[call.id].closed
  /\ Cardinality(DOMAIN topicStorage) > 1

(* The topics getTopicsByStatus is to return.                               *)
ExpectedByStatus(closed) ==
  { topicStorage[k] : k \in { x \in DOMAIN topicStorage :
        /\ topicStorage[x].closed = closed
        /\ topicStorage[x].language_id \in DOMAIN languageStorage } }

(* C9: getTopicsByStatus(closed) returns exactly the stored topics whose    *)
(* closed field equals the argument and whose language exists, each once;   *)
(* the two listings are disjoint and together hold every stored topic.      *)
C9_GetTopicsByStatus ==
  call.op = "getTopicsByStatus" =>
    LET other == getTopicsByStatus(~call.closed)
    IN /\ ret.ok
       /\ NoDuplicates(ret.val)
       /\ Range(ret.val) = ExpectedByStatus(call.closed)
       /\ other.ok
       /\ NoDuplicates(other.val)
       /\ Range(other.val) = ExpectedByStatus(~call.closed)
       /\ Range(ret.val) \cap Range(other.val) = {}
       /\ Range(ret.val) \cup Range(other.val) = Records(topicStorage)

(* C9 witness: a listing by status returned two topics of two languages.    *)
C9_Witness ==
  /\ call.op = "getTopicsByStatus"
  /\ Len(ret.val) = 2
  /\ ret.val[1].language_id # ret.val[2].language_id

RECURSIVE SumCounts(_)
SumCounts(stats) ==
  IF stats = <<>> THEN 0 ELSE Head(stats).count + SumCounts(Tail(stats))

(* C10: getLanguageStatistics returns one {title, count} entry per stored   *)
(* language, count being the number of stored topics with that language's   *)
(* id; the counts add up to the number of stored topics.                    *)
C10_LanguageStatistics ==
  call.op = "getLanguageStatistics" =>
    LET languages == Values(languageStorage, MaxLangs)
    IN /\ ret.ok
       /\ Len(ret.val) = Cardinality(DOMAIN languageStorage)
       /\ \A i \in 1..Len(ret.val) :
            /\ ret.val[i].title = languages[i].title
            /\ ret.val[i].count = Cardinality(TopicsOf(topicStorage, languages[i].id))
       /\ SumCounts(ret.val) = Cardinality(DOMAIN topicStorage)

(* C10 witness: statistics with a language of no topic and a language of    *)
(* more than one.                                                           *)
C10_Witness ==
  /\ call.op = "getLanguageStatistics"
  /\ \E i, j \in 1..Len(ret.val) : ret.val[i].count = 0 /\ ret.val[j].count >= 2

QueryOps ==
  { "getLanguages", "findLanguageByName", "getAllTopicsByLanguage",
    "getTopicsByLanguage", "getTopicsByStatus", "searchTopics",
    "getLanguageStatistics" }

(* The Result the query of request c gives in the current state.            *)
Rerun(c) ==
  CASE c.op = "getLanguages" -> getLanguages
    [] c.op = "findLanguageByName" -> findLanguageByName(c.lang_name)
    [] c.op = "getAllTopicsByLanguage" -> getAllTopicsByLanguage(c.lang_name)
    [] c.op = "getTopicsByLanguage" -> getTopicsByLanguage(c.lang_name)
    [] c.op = "getTopicsByStatus" -> getTopicsByStatus(c.closed)
    [] c.op = "searchTopics" -> searchTopics(c.title)
    [] c.op = "getLanguageStatistics" -> getLanguageStatistics

(* C11: a query leaves both maps as they were when it arrived, and the      *)
(* same query asked again right after it returns the same Result.           *)
C11_QueriesReadOnly ==
  call.op \in QueryOps =>
    /\ languageStorage = preLanguages
    /\ topicStorage = preTopics
    /\ Rerun(call) = ret
    /\ Range(Rerun(call).val) = Range(ret.val)

(* C11 witness: a search returned topics while two languages are stored.    *)
C11_Witness ==
  /\ call.op = "searchTopics"
  /\ ret.val # <<>>
  /\ Cardinality(DOMAIN languageStorage) = 2

(* C12: titles are non-empty.  Every stored language and every stored       *)
(* topic has a title of at least one character.                             *)
C12_TitlesNonEmpty ==
  /\ \A k \in DOMAIN languageStorage : languageStorage[k].title # <<>>
  /\ \A k \in DOMAIN topicStorage : topicStorage[k].title # <<>>

(* C13: totality.  Every request returns Ok with a payload or Err with      *)
(* NotFound or AlreadyExists, never the undefined outcome of a match with   *)
(* no branch for None: the get after a successful title scan finds the      *)
(* record.                                                                  *)
C13_Totality ==
  call # Idle =>
    /\ ret # Undefined
    /\ ret.ok => ret.err = ""
    /\ ~ret.ok => ret.err \in {"NotFound", "AlreadyExists"}
    /\ call.op \in {"findLanguageByName", "changeLanguageTitle"} =>
         (ret.ok <=> \E k \in DOMAIN preLanguages :
                        preLanguages[k].title = call.lang_name)

(* C13 witness: changeLanguageTitle went through its scan and its get       *)
(* while another language is stored.                                        *)
C13_Witness ==
  /\ call.op = "changeLanguageTitle"
  /\ ret.ok
  /\ Cardinality(DOMAIN languageStorage) = 2

(* Two characters are the same letter, whatever their case.                 *)
SameLetter(a, b) ==
  \/ a = b
  \/ {a, b} = {"G", "g"}
  \/ {a, b} = {"O", "o"}

(* q occurs in t as a run of consecutive characters, case ignored.          *)
OccursIn(q, t) ==
  \E i \in 0..(Len(t) - Len(q)) :
     \A j \in 1..Len(q) : SameLetter(t[i + j], q[j])

(* C14: searchTopics(query) returns exactly the stored topics whose title   *)
(* contains query as a contiguous substring, case ignored, each once; the   *)
(* empty query returns every stored topic.                                  *)
C14_SearchTopics ==
  call.op = "searchTopics" =>
    /\ ret.ok
    /\ NoDuplicates(ret.val)
    /\ Range(ret.val) =
         { topicStorage[k] : k \in { x \in DOMAIN topicStorage :
                                       OccursIn(call.title, topicStorage[x].title) } }
    /\ call.title = <<>> => Range(ret.val) = Records(topicStorage)

(* C14 witness: a search found exactly one of the two topics, its title     *)
(* longer than the query and matching it only once case is ignored.         *)
C14_Witness ==
  /\ call.op = "searchTopics"
  /\ Len(ret.val) = 1
  /\ Cardinality(DOMAIN topicStorage) = 2
  /\ Len(call.title) >= 1
  /\ Len(ret.val[1].title) > Len(call.title)
  /\ ~includes(ret.val[1].title, call.title)

(* The insert step of a two-step addTopic whose resolved language is gone.  *)
StaleInsert ==
  /\ call.op = "addTopicPending"
  /\ call.id \notin DOMAIN languageStorage
  /\ call'.op = "addTopic"

(* C15: joint atomicity is needed.  With addTopic in two steps, its insert  *)
(* after a deleteLanguage of the resolved language stores a topic whose     *)
(* language_id is the id of no stored language; and no other step (every    *)
(* function run to completion, or an insert whose language is still there)  *)
(* takes a state with referential integrity to one without.                 *)
C15_JointAtomicity ==
  [][ /\ StaleInsert =>
           /\ ret'.ok
           /\ ret'.val[1].language_id \notin DOMAIN languageStorage'
           /\ ret'.val[1].id \in DOMAIN topicStorage'
           /\ topicStorage'[ret'.val[1].id] = ret'.val[1]
           /\ ~C1_ReferentialIntegrity'
      /\ (C1_ReferentialIntegrity /\ ~C1_ReferentialIntegrity') => StaleInsert
    ]_vars

(* C15 witness: a two-step addTopic was answered Ok and its topic refers    *)
(* to a language that is not stored.                                        *)
C15_Witness ==
  /\ call.op = "addTopic"
  /\ ret.ok
  /\ ret.val[1].id \in DOMAIN topicStorage
  /\ topicStorage[ret.val[1].id] = ret.val[1]
  /\ ret.val[1].language_id \notin DOMAIN languageStorage
  /\ ret.val[1].language_id \in DOMAIN preLanguages

(* C16: changeLanguageTitle(oldTitle, newTitle) returns NotFound when       *)
(* oldTitle resolves to no language; otherwise it changes only the title    *)
(* of the resolved language: its id, every other language, the number of    *)
(* languages and every topic (so each topic's language_id) are unchanged.   *)
C16_ChangeLanguageTitle ==
  call.op = "changeLanguageTitle" =>
    LET r == Resolved(preLanguages, call.lang_name)
    IN IF r = NoId
       THEN /\ ret = Err("NotFound")
            /\ languageStorage = preLanguages
            /\ topicStorage = preTopics
       ELSE /\ ret.ok
            /\ ret.val = <<languageStorage[r]>>
            /\ DOMAIN languageStorage = DOMAIN preLanguages
            /\ Cardinality(DOMAIN languageStorage) = Cardinality(DOMAIN preLanguages)
            /\ languageStorage[r].id = preLanguages[r].id
            /\ languageStorage[r].title = call.new_name
            /\ \A k \in DOMAIN preLanguages \ {r} : languageStorage[k] = preLanguages[k]
            /\ topicStorage = preTopics
            /\ TopicsOf(topicStorage, r) = TopicsOf(preTopics, r)

(* C16 witness: a language owning a topic got a new title while another     *)
(* language is stored.                                                      *)
C16_Witness ==
  /\ call.op = "changeLanguageTitle"
  /\ ret.ok
  /\ ret.val[1].title # preLanguages[ret.val[1].id].title
  /\ TopicsOf(topicStorage, ret.val[1].id) # {}
  /\ Cardinality(DOMAIN languageStorage) = 2

(* C17: updateTopic(id, payload) returns NotFound when id is absent;        *)
(* otherwise it overwrites only title and closed of that topic: its id and  *)
(* language_id, every other topic, the number of topics and the language    *)
(* map are unchanged.                                                       *)
C17_UpdateTopic ==
  call.op = "updateTopic" =>
    IF call.id \notin DOMAIN preTopics
    THEN /\ ret = Err("NotFound")
         /\ languageStorage = preLanguages
         /\ topicStorage = preTopics
    ELSE /\ ret.ok
         /\ ret.val = <<topicStorage[call.id]>>
         /\ DOMAIN topicStorage = DOMAIN preTopics
         /\ Cardinality(DOMAIN topicStorage) = Cardinality(DOMAIN preTopics)
         /\ topicStorage[call.id].title = call.title
         /\ topicStorage[call.id].closed = call.closed
         /\ topicStorage[call.id].id = preTopics[call.id].id
         /\ topicStorage[call.id].language_id = preTopics[call.id].language_id
         /\ \A k \in DOMAIN preTopics \ {call.id} : topicStorage[k] = preTopics[k]
         /\ languageStorage = preLanguages

(* C17 witness: an updateTopic changed both title and closed of a topic     *)
(* while another topic is stored.                                           *)
C17_Witness ==
  /\ call.op = "updateTopic"
  /\ ret.ok
  /\ topicStorage[call.id].title # preTopics[call.id].title
  /\ topicStorage[call.id].closed # preTopics[call.id].closed
  /\ Cardinality(DOMAIN topicStorage) = 2

(* C18: id stability.  Every record is stored under the key equal to its    *)
(* id, and a request changes neither the id of a language or topic that     *)
(* stays stored nor the language_id of such a topic.                        *)
C18_IdStability ==
  /\ \A k \in DOMAIN languageStorage : languageStorage[k].id = k
  /\ \A k \in DOMAIN topicStorage : topicStorage[k].id = k
  /\ \A k \in DOMAIN languageStorage \cap DOMAIN preLanguages :
       languageStorage[k].id = preLanguages[k].id
  /\ \A k \in DOMAIN topicStorage \cap DOMAIN preTopics :
       /\ topicStorage[k].id = preTopics[k].id
       /\ topicStorage[k].language_id = preTopics[k].language_id

(* C18 witness: a request rewrote a stored record (a rename or an update)   *)
(* while two languages and two topics are stored.                           *)
C18_Witness ==
  /\ call.op \in {"changeLanguageTitle", "updateTopic", "updateTopicStatus"}
  /\ ret.ok
  /\ (languageStorage # preLanguages \/ topicStorage # preTopics)
  /\ Cardinality(DOMAIN languageStorage) = 2
  /\ Cardinality(DOMAIN topicStorage) = 2

(* C19: topic reachability by title.  For every stored language L and       *)
(* every stored topic t with t.language_id = L.id, getTopicsByLanguage of   *)
(* L's title succeeds and its result contains t.                            *)
C19_TopicReachableByTitle ==
  \A l \in DOMAIN languageStorage :
     \A k \in TopicsOf(topicStorage, languageStorage[l].id) :
        LET r == getTopicsByLanguage(languageStorage[l].title)
        IN /\ r.ok
           /\ topicStorage[k] \in Range(r.val)

====
